---- MODULE Spec2Model ----
(***************************************************************************)
(* Webhook receiver of examples/github-release-with-webhook.py:            *)
(* verify_webhook_signature and the Flask handler handle_vloex_webhook.    *)
(*                                                                         *)
(* Text is a sequence of one-character strings.  The character "U+00E9"    *)
(* stands for a single non-ASCII character (e with acute accent).          *)
(* Time is counted in ticks of 1/ClockResolution second, so that the       *)
(* float returned by time.time() can fall between two whole seconds.       *)
(***************************************************************************)
EXTENDS Integers, Sequences, FiniteSets, TLC

\* ------------------------------------------------------------------ bounds
\* ticks per second of the modelled clock
ClockResolution == 2
\* how many ticks the clock advances during a run
MaxTicks == 2
\* how many deliveries the receiver handles during a run
MaxDeliveries == 2
\* how many request threads run verify_webhook_signature at the same time
NumWorkers == 2

\* ------------------------------------------------------------------ text
\* code points of the characters that occur in the model
CodePoints ==
    << <<"0", 48>>, <<"1", 49>>, <<"2", 50>>, <<"3", 51>>, <<"4", 52>>,
       <<"5", 53>>, <<"6", 54>>, <<"7", 55>>, <<"8", 56>>, <<"9", 57>>,
       <<"a", 97>>, <<"b", 98>>, <<"c", 99>>, <<"d", 100>>, <<"e", 101>>,
       <<"f", 102>>, <<"g", 103>>, <<"h", 104>>, <<"i", 105>>, <<"j", 106>>,
       <<"k", 107>>, <<"l", 108>>, <<"m", 109>>, <<"n", 110>>, <<"o", 111>>,
       <<"p", 112>>, <<"q", 113>>, <<"r", 114>>, <<"s", 115>>, <<"t", 116>>,
       <<"u", 117>>, <<"v", 118>>, <<"w", 119>>, <<"x", 120>>, <<"y", 121>>,
       <<"z", 122>>, <<" ", 32>>, <<"+", 43>>, <<"-", 45>>, <<"_", 95>>,
       <<".", 46>>, <<"=", 61>>, <<"{", 123>>, <<"}", 125>>, <<"[", 91>>,
       <<"]", 93>>, <<"\"", 34>>, <<":", 58>>, <<",", 44>>,
       <<"U+00E9", 233>> >>

\* ord(c)
Ord(c) == LET i == CHOOSE k \in 1..Len(CodePoints) : CodePoints[k][1] = c
          IN  CodePoints[i][2]

Digits == <<"0", "1", "2", "3", "4", "5", "6", "7", "8", "9">>

HexDigits == Digits \o <<"a", "b", "c", "d", "e", "f">>

IsDigit(c) == \E k \in 1..Len(Digits) : Digits[k] = c

DigitValue(c) == (CHOOSE k \in 1..Len(Digits) : Digits[k] = c) - 1

\* s with the leading and trailing blanks removed, as int() does first
RECURSIVE LStrip(_)
LStrip(s) == IF s # <<>> /\ Head(s) = " " THEN LStrip(Tail(s)) ELSE s

RECURSIVE RStrip(_)
RStrip(s) == IF s # <<>> /\ s[Len(s)] = " "
             THEN RStrip(SubSeq(s, 1, Len(s) - 1)) ELSE s

Strip(s) == RStrip(LStrip(s))

\* the literal without its sign
Unsigned(s) == IF s # <<>> /\ Head(s) \in {"+", "-"} THEN Tail(s) ELSE s

\* digits, with single underscores allowed between two digits
IsDigitGroup(d) ==
    /\ d # <<>>
    /\ \A k \in 1..Len(d) :
          \/ IsDigit(d[k])
          \/ /\ d[k] = "_"
             /\ 1 < k /\ k < Len(d)
             /\ IsDigit(d[k - 1]) /\ IsDigit(d[k + 1])

\* int(s) succeeds: s is a base-10 integer literal
IsIntLiteral(s) == IsDigitGroup(Unsigned(Strip(s)))

RECURSIVE DigitsValue(_, _)
DigitsValue(d, acc) ==
    IF d = <<>> THEN acc
    ELSE IF Head(d) = "_" THEN DigitsValue(Tail(d), acc)
    ELSE DigitsValue(Tail(d), 10 * acc + DigitValue(Head(d)))

\* int(s), for an s that IsIntLiteral
IntValue(s) ==
    LET t == Strip(s)
        v == DigitsValue(Unsigned(t), 0)
    IN  IF Head(t) = "-" THEN 0 - v ELSE v

Abs(n) == IF n < 0 THEN 0 - n ELSE n

\* the positions of the character sep in s
Occurrences(s, sep) == {k \in 1..Len(s) : s[k] = sep}

\* the position of the n-th sep in s; 0 for n = 0 and Len(s) + 1 past the last
NthOccurrence(s, sep, n) ==
    LET occ == Occurrences(s, sep)
    IN  IF n = 0 THEN 0
        ELSE IF n > Cardinality(occ) THEN Len(s) + 1
        ELSE CHOOSE p \in occ : Cardinality({q \in occ : q < p}) = n - 1

\* s.split(sep): the pieces of s between the occurrences of the character sep
Split(s, sep) ==
    [n \in 1..(Cardinality(Occurrences(s, sep)) + 1) |->
        SubSeq(s, NthOccurrence(s, sep, n - 1) + 1, NthOccurrence(s, sep, n) - 1)]

\* sep in s
Contains(s, sep) == \E k \in 1..Len(s) : s[k] = sep

\* a str that holds ASCII characters only
IsAscii(s) == \A k \in 1..Len(s) : Ord(s[k]) < 128

\* the UTF-8 bytes of one character (code points below 0x800)
Utf8Bytes(c) ==
    LET n == Ord(c)
    IN  IF n < 128 THEN <<n>> ELSE <<192 + (n \div 64), 128 + (n % 64)>>

\* the number of bytes the first k characters of s encode to
Utf8Offset(s, k) == k + Cardinality({q \in 1..k : Ord(s[q]) >= 128})

\* s.encode('utf-8'): the bytes of s
EncodeUtf8(s) ==
    IF IsAscii(s) THEN [k \in 1..Len(s) |-> Ord(s[k])]
    ELSE [j \in 1..Utf8Offset(s, Len(s)) |->
            LET k == CHOOSE q \in 1..Len(s) :
                        Utf8Offset(s, q - 1) < j /\ j <= Utf8Offset(s, q)
            IN  Utf8Bytes(s[k])[j - Utf8Offset(s, k - 1)]]

\* two lowercase hex digits of a byte
Hex2(n) == <<HexDigits[(n \div 16) + 1], HexDigits[(n % 16) + 1]>>

\* bytes.hex(): two lowercase hex digits per byte
HexOf(bytes) ==
    [j \in 1..(2 * Len(bytes)) |-> Hex2(bytes[(j + 1) \div 2])[2 - (j % 2)]]

\* hmac.new(key, msg, sha256).hexdigest(): a lowercase-hex digest that is an
\* injective function of (key, msg); the key's length comes first so that the
\* boundary between key and message cannot be moved
HmacSha256Hex(key, msg) == Hex2(Len(key)) \o HexOf(key) \o HexOf(msg)

\* hmac.compare_digest(a, b) on two str: TypeError unless both are ASCII
compare_digest(a, b) ==
    IF ~(IsAscii(a) /\ IsAscii(b)) THEN "TypeError"
    ELSE IF a = b THEN "True" ELSE "False"

\* ------------------------------------------------ verify_webhook_signature
\* the freshness tolerance, in seconds
Tolerance == 300

\* the freshness check with >= in place of >
IsStale_Inclusive(now, timestamp) ==
    Abs(now - IntValue(timestamp) * ClockResolution) >= Tolerance * ClockResolution

\* the freshness check without abs(): only old timestamps are stale
IsStale_PastOnly(now, timestamp) ==
    now - IntValue(timestamp) * ClockResolution > Tolerance * ClockResolution

\* abs(time.time() - int(timestamp)) > 300, with now in clock ticks
IsStale(now, timestamp) ==
    Abs(now - IntValue(timestamp) * ClockResolution) > Tolerance * ClockResolution

\* f"{timestamp}.{payload_json}"
SignedMessage(timestamp, payload_json) == timestamp \o <<".">> \o payload_json

expected_signature(payload_json, timestamp, secret) ==
    HmacSha256Hex(EncodeUtf8(secret), EncodeUtf8(SignedMessage(timestamp, payload_json)))

\* the extraction taking the piece before the "=", split('=')[0]
provided_signature_Label(signature) ==
    IF Contains(signature, "=") THEN Split(signature, "=")[1] ELSE signature

\* signature.split('=')[1] if '=' in signature else signature
provided_signature(signature) ==
    IF Contains(signature, "=") THEN Split(signature, "=")[2] ELSE signature

\* the call's outcome at clock reading now: "True", "False", or the exception
\* it ends in ("ValueError" from int(), "TypeError" from compare_digest)
verify_webhook_signature(payload_json, signature, timestamp, secret, now) ==
    IF ~IsIntLiteral(timestamp) THEN "ValueError"
    ELSE IF IsStale(now, timestamp) THEN "False"
    ELSE compare_digest(expected_signature(payload_json, timestamp, secret),
                        provided_signature(signature))

\* --------------------------------------------------- handle_vloex_webhook
\* headers.get(name, default)
HeaderGet(headers, name, default) ==
    IF name \in DOMAIN headers THEN headers[name] ELSE default

\* Python's None, as the value of dict.get for a missing key
None == <<"None">>

Quote == "\""

\* json.loads(text) for the documents this receiver is sent: an object whose
\* keys and values are strings, the empty array, or null; anything else is
\* rejected.  An object is returned as the sequence of its (key, value) pairs.
IsJsonObject(text) ==
    LET nq   == Cardinality(Occurrences(text, Quote))
        q(n) == NthOccurrence(text, Quote, n)
    IN  /\ Len(text) >= 2
        /\ text[1] = "{" /\ text[Len(text)] = "}"
        /\ nq % 4 = 0
        /\ nq = 0 => Len(text) = 2
        /\ nq > 0 => /\ q(1) = 2
                     /\ q(nq) = Len(text) - 1
                     /\ \A p \in 1..(nq \div 4) :
                          /\ q(4 * p - 1) = q(4 * p - 2) + 2
                          /\ text[q(4 * p - 2) + 1] = ":"
                          /\ p < nq \div 4 =>
                               /\ q(4 * p + 1) = q(4 * p) + 2
                               /\ text[q(4 * p) + 1] = ","

JsonPairs(text) ==
    LET q(n) == NthOccurrence(text, Quote, n)
    IN  [p \in 1..(Cardinality(Occurrences(text, Quote)) \div 4) |->
            << SubSeq(text, q(4 * p - 3) + 1, q(4 * p - 2) - 1),
               SubSeq(text, q(4 * p - 1) + 1, q(4 * p) - 1) >>]

\* request.get_json(): the parsed value, or kind "invalid" where Flask
\* raises BadRequest
get_json(text) ==
    IF IsJsonObject(text) THEN [kind |-> "dict", pairs |-> JsonPairs(text)]
    ELSE IF text = <<"[", "]">> THEN [kind |-> "list", pairs |-> <<>>]
    ELSE IF text = <<"n", "u", "l", "l">> THEN [kind |-> "None", pairs |-> <<>>]
    ELSE [kind |-> "invalid", pairs |-> <<>>]

\* payload.get(key) on a dict: the value of the last pair with that key
DictGet(pairs, key) ==
    LET hits == {p \in 1..Len(pairs) : pairs[p][1] = key}
    IN  IF hits = {} THEN None
        ELSE pairs[CHOOSE p \in hits : \A r \in hits : r <= p][2]

KeyEvent == <<"e", "v", "e", "n", "t">>

KeyJobId == <<"j", "o", "b", "_", "i", "d">>

VideoCompleted == <<"v", "i", "d", "e", "o", ".", "c", "o", "m", "p", "l", "e", "t", "e", "d">>

VideoFailed == <<"v", "i", "d", "e", "o", ".", "f", "a", "i", "l", "e", "d">>

\* The handler run on one delivery at clock reading now, with the module's
\* secret: the HTTP status answered, the outcome of the signature check
\* ("skipped" when the handler did not call it), whether the handler went on
\* to parse the payload (line 152), and the reports it wrote to stdout.  An
\* exception leaving the handler is answered by Flask with status 500, a
\* BadRequest from get_json with 400.
handle_vloex_webhook(req, secret, now) ==
    LET signature    == HeaderGet(req.headers, "X-VLOEX-Signature", <<>>)
        timestamp    == HeaderGet(req.headers, "X-VLOEX-Timestamp", <<>>)
        payload_json == req.body
        checked      == secret # <<>> /\ signature # <<>>
        verified     == IF checked
                        THEN verify_webhook_signature(payload_json, signature,
                                                      timestamp, secret, now)
                        ELSE "skipped"
        payload      == get_json(payload_json)
        event        == DictGet(payload.pairs, KeyEvent)
        job_id       == DictGet(payload.pairs, KeyJobId)
        answer(status, parsed, lines) ==
            [status |-> status, verified |-> verified, parsed |-> parsed,
             lines |-> lines]
    IN  IF verified \in {"ValueError", "TypeError"} THEN answer(500, FALSE, <<>>)
        ELSE IF verified = "False" THEN answer(401, FALSE, <<>>)
        ELSE IF payload.kind = "invalid" THEN answer(400, TRUE, <<>>)
        ELSE IF payload.kind # "dict" THEN answer(500, TRUE, <<>>)
        ELSE IF event \in {VideoCompleted, VideoFailed}
             THEN answer(200, TRUE,
                         << [job_id |-> job_id, event |-> event,
                             verified |-> verified] >>)
        ELSE answer(200, TRUE, <<>>)

\* --------------------------------------------------------------- inputs
\* os.getenv('VLOEX_WEBHOOK_SECRET', 'my_secret_key_123'): the default
DefaultSecret ==
    <<"m", "y", "_", "s", "e", "c", "r", "e", "t", "_", "k", "e", "y", "_",
      "1", "2", "3">>

\* another secret, one the receiver is not configured with
OtherSecret == <<"s", "3">>

Secrets == {DefaultSecret, OtherSecret}

\* raw request bodies
BodyCompleted ==
    <<"{", "\"", "e", "v", "e", "n", "t", "\"", ":", "\"", "v", "i", "d",
      "e", "o", ".", "c", "o", "m", "p", "l", "e", "t", "e", "d", "\"", ",",
      "\"", "j", "o", "b", "_", "i", "d", "\"", ":", "\"", "j", "1", "\"",
      "}">>

BodyFailed ==
    <<"{", "\"", "e", "v", "e", "n", "t", "\"", ":", "\"", "v", "i", "d",
      "e", "o", ".", "f", "a", "i", "l", "e", "d", "\"", ",", "\"", "j", "o",
      "b", "_", "i", "d", "\"", ":", "\"", "j", "1", "\"", "}">>

BodyOtherEvent ==
    <<"{", "\"", "e", "v", "e", "n", "t", "\"", ":", "\"", "v", "i", "d",
      "e", "o", ".", "q", "u", "e", "u", "e", "d", "\"", ",", "\"", "j", "o",
      "b", "_", "i", "d", "\"", ":", "\"", "j", "1", "\"", "}">>

BodyNoEvent ==
    <<"{", "}">>

BodyList ==
    <<"[", "]">>

BodyNull ==
    <<"n", "u", "l", "l">>

BodyBroken ==
    <<"{", "\"", "e", "v", "e", "n", "t", "\"", ":">>

Bodies == {BodyCompleted, BodyFailed, BodyOtherEvent, BodyNoEvent, BodyList,
           BodyNull, BodyBroken}

\* the bodies passed in direct calls, where only the text matters
CallBodies == {BodyCompleted, BodyNoEvent, BodyList}

\* timestamp header values: the clock starts at second 1000, so these are
\* 300, 301 seconds old, current, 300, 301 seconds ahead; then literals int()
\* accepts that are not plain digits, and strings it rejects
Timestamps ==
    { <<"7", "0", "0">>, <<"6", "9", "9">>, <<"1", "0", "0", "0">>,
      <<"1", "3", "0", "0">>, <<"1", "3", "0", "1">>,
      <<" ", "1", "0", "0", "0">>, <<"1", "_", "0", "0", "0">>,
      <<>>, <<"1", "2", "a">>, <<"1", "0", "0", "0", ".", "5">> }

\* the clock reading at the start of a run, in ticks
StartTime == 1000 * ClockResolution

\* d with its first character replaced by another hex digit
FlipFirst(d) == <<(IF Head(d) = "0" THEN "1" ELSE "0")>> \o Tail(d)

\* signature header values a sender can build around a digest d
SignatureForms ==
    {"bare", "scheme", "empty", "tampered", "trailing", "suffix", "nonascii",
     "schemeonly"}

Sha256Label == <<"s", "h", "a", "2", "5", "6">>

SignatureHeader(form, d) ==
    CASE form = "bare"       -> d
      [] form = "scheme"     -> Sha256Label \o <<"=">> \o d
      [] form = "empty"      -> <<>>
      [] form = "tampered"   -> FlipFirst(d)
      [] form = "trailing"   -> Sha256Label \o <<"=">> \o d \o <<"=", "x">>
      [] form = "suffix"     -> d \o <<"=", "x">>
      [] form = "nonascii"   -> Sha256Label \o <<"=">> \o Tail(d) \o <<"U+00E9">>
      [] form = "schemeonly" -> Sha256Label \o <<"=">>

\* ------------------------------------------------------------------ state
VARIABLES
    clock,           \* time.time(), in ticks of 1/ClockResolution s
    WEBHOOK_SECRET,  \* the module global read from the environment at import
    call,            \* the last direct call of verify_webhook_signature
    request,         \* the delivery last received, or NoRequest
    response,        \* the handler's answer to it; status 0 while it is pending
    stdout,          \* the completion / failure reports written so far
    served,          \* number of deliveries served
    api,             \* the SDK: the Vloex client built, and its last operation
    poller,          \* the polling loop of generate_release_video
    workers          \* per request thread: the locals of its verify call

vars == <<clock, WEBHOOK_SECRET, call, request, response, stdout, served,
          api, poller, workers>>

\* the state of the SDK's caller, of the poller and of the request threads
sdkVars == <<api, poller, workers>>

\* the state of the webhook receiver
receiverVars == <<WEBHOOK_SECRET, call, request, response, stdout, served>>

NoCall == [made |-> FALSE]

NoRequest == [present |-> FALSE]

NoResponse == [status |-> 0, verified |-> "skipped", parsed |-> FALSE]

\* a request-handling thread that is not inside verify_webhook_signature
WorkerIdle ==
    [pc |-> "idle", args |-> [given |-> FALSE], now |-> 0, message |-> <<>>,
     expected_signature |-> <<>>, provided_signature |-> <<>>, result |-> "none"]

Init ==
    /\ clock = StartTime
    /\ WEBHOOK_SECRET \in {DefaultSecret, <<>>}
    /\ call = NoCall
    /\ request = NoRequest
    /\ response = NoResponse
    /\ stdout = <<>>
    /\ served = 0
    /\ api = [client |-> [made |-> FALSE], last |-> [op |-> "none"]]
    /\ poller = [pc |-> "idle"]
    /\ workers = [w \in 1..NumWorkers |-> WorkerIdle]

\* time passes
Tick ==
    /\ clock < StartTime + MaxTicks
    /\ clock' = clock + 1
    /\ UNCHANGED <<WEBHOOK_SECRET, call, request, response, stdout, served, sdkVars>>

\* the digests a sender can put in the header of a delivery (body, timestamp)
\* meant for a receiver holding secret: signed as delivered, or with one of
\* body, timestamp and key different
SenderDigests(body, timestamp, secret) ==
    { expected_signature(b, t, k) :
        <<b, t, k>> \in { x \in CallBodies \X Timestamps \X Secrets :
                            \/ x[1] = body /\ x[2] = timestamp
                            \/ x[1] = body /\ x[3] = secret
                            \/ x[2] = timestamp /\ x[3] = secret } }

SenderSignatures(body, timestamp, secret) ==
    { SignatureHeader(form, d) :
        form \in SignatureForms, d \in SenderDigests(body, timestamp, secret) }

\* a direct call verify_webhook_signature(payload_json, signature, timestamp,
\* secret): reads the clock, returns or raises
CallVerify ==
    /\ ~call.made
    /\ \E payload_json \in CallBodies, timestamp \in Timestamps, secret \in Secrets :
         \E signature \in SenderSignatures(payload_json, timestamp, secret) :
            call' = [made         |-> TRUE,
                     payload_json |-> payload_json,
                     signature    |-> signature,
                     timestamp    |-> timestamp,
                     secret       |-> secret,
                     now          |-> clock,
                     result       |-> verify_webhook_signature(
                                         payload_json, signature, timestamp,
                                         secret, clock)]
    /\ UNCHANGED <<clock, WEBHOOK_SECRET, request, response, stdout, served, sdkVars>>

\* the caller has used the result and is ready for another call
Return ==
    /\ call.made
    /\ call' = NoCall
    /\ UNCHANGED <<clock, WEBHOOK_SECRET, request, response, stdout, served, sdkVars>>

NextVerify == CallVerify \/ Return \/ Tick

\* the direct calls do not read the module's secret
InitVerify == Init /\ WEBHOOK_SECRET = DefaultSecret

SpecVerify == InitVerify /\ [][NextVerify]_vars

\* ------------------------------------------------------------- receiver
\* timestamp header values of the deliveries sent to the receiver
DeliveryTimestamps ==
    { <<"1", "0", "0", "0">>, <<"7", "0", "0">>, <<"6", "9", "9">>,
      <<"1", "2", "a">> }

\* what the sender of a delivery (body, timestamp) signs: the delivery itself
\* with the receiver's secret or with another one, or an earlier delivery
\* whose signature header it replays on this one
DeliveryDigests(body, timestamp) ==
    { expected_signature(body, timestamp, DefaultSecret),
      expected_signature(body, timestamp, OtherSecret),
      expected_signature(BodyCompleted, <<"7", "0", "0">>, DefaultSecret) }

DeliverySignatures(body, timestamp) ==
    { SignatureHeader(form, d) :
        form \in SignatureForms, d \in DeliveryDigests(body, timestamp) }

HeaderNames == {"X-VLOEX-Signature", "X-VLOEX-Timestamp"}

\* a POST to /api/vloex-webhook arrives; a header that was not sent is not in
\* the mapping of its headers
Deliver ==
    /\ served < MaxDeliveries
    /\ ~request.present
    /\ \E body \in Bodies, timestamp \in DeliveryTimestamps :
         \E signature \in DeliverySignatures(body, timestamp),
            sent \in SUBSET HeaderNames :
            request' = [present |-> TRUE,
                        headers |-> [n \in sent |->
                                       IF n = "X-VLOEX-Signature"
                                       THEN signature ELSE timestamp],
                        body    |-> body]
    /\ UNCHANGED <<clock, WEBHOOK_SECRET, call, response, stdout, served, sdkVars>>

\* handle_vloex_webhook serves the pending delivery
Handle ==
    /\ request.present /\ response.status = 0
    /\ LET r == handle_vloex_webhook(request, WEBHOOK_SECRET, clock)
       IN  /\ response' = [status |-> r.status, verified |-> r.verified,
                           parsed |-> r.parsed]
           /\ stdout' = stdout \o r.lines
    /\ served' = served + 1
    /\ UNCHANGED <<clock, WEBHOOK_SECRET, call, request, sdkVars>>

\* the answer has gone out and Flask drops the request context
Respond ==
    /\ request.present /\ response.status # 0
    /\ request' = NoRequest
    /\ response' = NoResponse
    /\ UNCHANGED <<clock, WEBHOOK_SECRET, call, stdout, served, sdkVars>>

Next == Deliver \/ Handle \/ Respond \/ Tick

Spec == Init /\ [][Next]_vars

\* ------------------------------------------------------------ vloex/client.py
\* needle in s, for two str
IsSubstring(needle, s) ==
    \E i \in 1..(Len(s) - Len(needle) + 1) :
        SubSeq(s, i, i + Len(needle) - 1) = needle

\* bool(v) of a str or None
Truthy(v) == v # None /\ v # <<>>

\* a or b
Or(a, b) == IF Truthy(a) THEN a ELSE b

DEFAULT_BASE_URL == <<"h", "t", "t", "p", "s", ":", "/", "/", "a", "p", "i", ".", "v", "l", "o", "e", "x", ".", "c", "o", "m">>

PathGenerate == <<"/", "v", "1", "/", "g", "e", "n", "e", "r", "a", "t", "e">>

PathFromJourney == <<"/", "v", "1", "/", "v", "i", "d", "e", "o", "s", "/", "f", "r", "o", "m", "-", "j", "o", "u", "r", "n", "e", "y">>

\* f'/v1/jobs/{id}/status'
PathStatus(id) == <<"/", "v", "1", "/", "j", "o", "b", "s", "/">> \o id \o <<"/", "s", "t", "a", "t", "u", "s">>

\* VloexError(message, status_code)
VloexError(message, status_code) ==
    [kind |-> "VloexError", message |-> message, status_code |-> status_code]

\* an exception of another class leaving the call
Raised(class) == [kind |-> class]

\* the value a call returns
Returned(value) == [kind |-> "return", value |-> value]

\* response.json() with the except ValueError: branch: the parsed body, {} for
\* a body that is not JSON
response_data(reply) ==
    LET parsed == get_json(reply.text)
    IN  IF parsed.kind = "invalid" THEN [kind |-> "dict", pairs |-> <<>>]
        ELSE parsed

\* the headers _request sends
request_headers(api_key, idempotency_key) ==
    [n \in {"Authorization", "Content-Type"}
           \cup (IF Truthy(idempotency_key) THEN {"Idempotency-Key"} ELSE {}) |->
        CASE n = "Authorization"   -> <<"B", "e", "a", "r", "e", "r", " ">> \o api_key
          [] n = "Content-Type"    -> <<"a", "p", "p", "l", "i", "c", "a", "t", "i", "o", "n", "/", "j", "s", "o", "n">>
          [] n = "Idempotency-Key" -> idempotency_key]

\* the requests.request(...) call _request makes
http_request(client, method, path, body, idempotency_key) ==
    [method  |-> method,
     url     |-> client.base_url \o path,
     headers |-> request_headers(client.api_key, idempotency_key),
     json    |-> body,
     timeout |-> 60]

\* the '/generate' mapping
generate_record(pairs) ==
    [id     |-> Or(DictGet(pairs, <<"j", "o", "b", "_", "i", "d">>), DictGet(pairs, <<"i", "d">>)),
     status |-> DictGet(pairs, <<"s", "t", "a", "t", "u", "s">>),
     url    |-> DictGet(pairs, <<"u", "r", "l">>),
     error  |-> DictGet(pairs, <<"e", "r", "r", "o", "r">>)]

\* the '/status' mapping
status_record(pairs) ==
    [id     |-> DictGet(pairs, <<"i", "d">>),
     status |-> DictGet(pairs, <<"s", "t", "a", "t", "u", "s">>),
     url    |-> Or(DictGet(pairs, <<"v", "i", "d", "e", "o", "_", "u", "r", "l">>), DictGet(pairs, <<"u", "r", "l">>)),
     error  |-> Or(DictGet(pairs, <<"e", "r", "r", "o", "r", "_", "m", "e", "s", "s", "a", "g", "e">>), DictGet(pairs, <<"e", "r", "r", "o", "r">>))]

\* the '/from-journey' mapping
journey_record(pairs) ==
    [id         |-> DictGet(pairs, <<"i", "d">>),
     status     |-> DictGet(pairs, <<"s", "t", "a", "t", "u", "s">>),
     created_at |-> DictGet(pairs, <<"c", "r", "e", "a", "t", "e", "d", "_", "a", "t">>),
     updated_at |-> DictGet(pairs, <<"u", "p", "d", "a", "t", "e", "d", "_", "a", "t">>)]

ApiRequestFailed == <<"A", "P", "I", " ", "r", "e", "q", "u", "e", "s", "t", " ", "f", "a", "i", "l", "e", "d">>

\* Vloex._request after requests.request has answered with reply: what the
\* call returns or raises.  data.get on a body that parsed to a list or to
\* None raises AttributeError.
request_outcome(path, reply) ==
    LET data == response_data(reply)
    IN  IF ~reply.ok
        THEN IF data.kind # "dict" THEN Raised("AttributeError")
             ELSE VloexError(Or(Or(DictGet(data.pairs, <<"d", "e", "t", "a", "i", "l">>),
                                   DictGet(data.pairs, <<"m", "e", "s", "s", "a", "g", "e">>)),
                                ApiRequestFailed),
                             reply.status_code)
        ELSE IF IsSubstring(<<"/", "g", "e", "n", "e", "r", "a", "t", "e">>, path)
        THEN IF data.kind # "dict" THEN Raised("AttributeError")
             ELSE Returned(generate_record(data.pairs))
        ELSE IF IsSubstring(<<"/", "s", "t", "a", "t", "u", "s">>, path)
        THEN IF data.kind # "dict" THEN Raised("AttributeError")
             ELSE Returned(status_record(data.pairs))
        ELSE IF IsSubstring(<<"/", "f", "r", "o", "m", "-", "j", "o", "u", "r", "n", "e", "y">>, path)
        THEN IF data.kind # "dict" THEN Raised("AttributeError")
             ELSE Returned(journey_record(data.pairs))
        ELSE Returned(data)

\* Vloex._request: the HTTP requests it issued and how it ended; a reply that
\* never arrives (connection error, timeout) ends it in requests' exception
_request(client, method, path, body, idempotency_key, reply) ==
    [sent    |-> <<http_request(client, method, path, body, idempotency_key)>>,
     outcome |-> IF ~reply.arrived THEN Raised("RequestException")
                 ELSE request_outcome(path, reply)]

\* Vloex.__init__
Vloex(api_key, base_url) ==
    IF ~Truthy(api_key) THEN [client |-> [made |-> FALSE], outcome |-> Raised("ValueError")]
    ELSE [client  |-> [made |-> TRUE, api_key |-> api_key, base_url |-> base_url],
          outcome |-> Returned("client")]

\* VideoResource.create
create(client, script, webhook_url, webhook_secret, idempotency_key, options, reply) ==
    LET keys == {"input", "options"}
                  \cup (IF Truthy(webhook_url) THEN {"webhook_url"} ELSE {})
                  \cup (IF Truthy(webhook_secret) THEN {"webhook_secret"} ELSE {})
        payload == [k \in keys |->
                      CASE k = "input"          -> script
                        [] k = "options"        -> options
                        [] k = "webhook_url"    -> webhook_url
                        [] k = "webhook_secret" -> webhook_secret]
    IN  _request(client, "POST", PathGenerate, payload, idempotency_key, reply)

\* VideoResource.retrieve
retrieve(client, id, reply) ==
    _request(client, "GET", PathStatus(id), None, None, reply)

\* the JSON body from_journey builds; kw holds the named arguments the caller
\* gave, options the keyword arguments that match no parameter (**options)
journey_payload(kw, options) ==
    LET arg(name, default) == IF name \in DOMAIN kw THEN kw[name] ELSE default
        product_context == arg("product_context", None)
        screenshots     == arg("screenshots", None)
        descriptions    == arg("descriptions", None)
        product_url     == arg("product_url", None)
        pages           == arg("pages", None)
        webhook_url     == arg("webhook_url", None)
        webhook_secret  == arg("webhook_secret", None)
        keys == {"product_context", "step_duration", "avatar_position", "tone"}
                  \cup DOMAIN options
                  \cup (IF Truthy(screenshots) THEN {"screenshots"} ELSE {})
                  \cup (IF Truthy(screenshots) /\ Truthy(descriptions)
                        THEN {"descriptions"} ELSE {})
                  \cup (IF Truthy(product_url) THEN {"product_url"} ELSE {})
                  \cup (IF Truthy(product_url) /\ Truthy(pages)
                        THEN {"pages"} ELSE {})
                  \cup (IF Truthy(webhook_url) THEN {"webhook_url"} ELSE {})
                  \cup (IF Truthy(webhook_secret) THEN {"webhook_secret"} ELSE {})
        payload == [k \in keys |->
                      CASE k = "screenshots" /\ Truthy(screenshots) -> screenshots
                        [] k = "descriptions" /\ Truthy(screenshots)
                             /\ Truthy(descriptions) -> descriptions
                        [] k = "product_url" /\ Truthy(product_url) -> product_url
                        [] k = "pages" /\ Truthy(product_url) /\ Truthy(pages) -> pages
                        [] k = "webhook_url" /\ Truthy(webhook_url) -> webhook_url
                        [] k = "webhook_secret" /\ Truthy(webhook_secret)
                             -> webhook_secret
                        [] OTHER ->
                             IF k \in DOMAIN options THEN options[k]
                             ELSE CASE k = "product_context" -> product_context
                                    [] k = "step_duration"   -> arg("step_duration", 15)
                                    [] k = "avatar_position" ->
                                         arg("avatar_position", <<"b", "o", "t", "t", "o", "m", "-", "r", "i", "g", "h", "t">>)
                                    [] k = "tone" -> arg("tone", <<"p", "r", "o", "f", "e", "s", "s", "i", "o", "n", "a", "l">>)]
    IN  payload

\* product_context of the call, None when the caller left it out
journey_context(kw) ==
    IF "product_context" \in DOMAIN kw THEN kw["product_context"] ELSE None

\* from_journey with the product_context test after the request has gone out
from_journey_SendFirst(client, kw, options, reply) ==
    LET r == _request(client, "POST", PathFromJourney, journey_payload(kw, options),
                      None, reply)
    IN  IF ~Truthy(journey_context(kw))
        THEN [sent |-> r.sent, outcome |-> Raised("ValueError")]
        ELSE r

\* VideoResource.from_journey
from_journey(client, kw, options, reply) ==
    IF ~Truthy(journey_context(kw))
    THEN [sent |-> <<>>, outcome |-> Raised("ValueError")]
    ELSE _request(client, "POST", PathFromJourney, journey_payload(kw, options),
                  None, reply)


\* ------------------------------------------- callers of the client, API replies
ApiKey == <<"k", "1">>

ApiKeys == {None, <<>>, ApiKey}

IdemKey == <<"i", "d", "e", "m", "-", "1">>

HookUrl == <<"h", "t", "t", "p", "s", ":", "/", "/", "h", "/", "w">>

\* job ids a caller asks about; a str is interpolated into the path as it is
JobIds == {<<"j", "1">>, <<"a", "/", "g", "e", "n", "e", "r", "a", "t", "e">>}

ReplyJob ==
    <<"{", "\"", "j", "o", "b", "_", "i", "d", "\"", ":", "\"", "j", "2",
      "\"", ",", "\"", "i", "d", "\"", ":", "\"", "j", "1", "\"", ",",
      "\"", "s", "t", "a", "t", "u", "s", "\"", ":", "\"", "c", "o", "m",
      "p", "l", "e", "t", "e", "d", "\"", ",", "\"", "v", "i", "d", "e",
      "o", "_", "u", "r", "l", "\"", ":", "\"", "u", "1", "\"", ",", "\"",
      "u", "r", "l", "\"", ":", "\"", "u", "2", "\"", ",", "\"", "e", "r",
      "r", "o", "r", "_", "m", "e", "s", "s", "a", "g", "e", "\"", ":",
      "\"", "e", "1", "\"", ",", "\"", "e", "r", "r", "o", "r", "\"", ":",
      "\"", "e", "2", "\"", "}">>

ReplyPlain ==
    <<"{", "\"", "i", "d", "\"", ":", "\"", "j", "1", "\"", ",", "\"", "s",
      "t", "a", "t", "u", "s", "\"", ":", "\"", "q", "u", "e", "u", "e",
      "d", "\"", ",", "\"", "u", "r", "l", "\"", ":", "\"", "u", "2", "\"",
      ",", "\"", "e", "r", "r", "o", "r", "\"", ":", "\"", "e", "2", "\"",
      ",", "\"", "c", "r", "e", "a", "t", "e", "d", "_", "a", "t", "\"",
      ":", "\"", "t", "1", "\"", ",", "\"", "u", "p", "d", "a", "t", "e",
      "d", "_", "a", "t", "\"", ":", "\"", "t", "2", "\"", "}">>

ReplyDetail ==
    <<"{", "\"", "d", "e", "t", "a", "i", "l", "\"", ":", "\"", "d", "1",
      "\"", ",", "\"", "m", "e", "s", "s", "a", "g", "e", "\"", ":", "\"",
      "m", "1", "\"", "}">>

ReplyMessage ==
    <<"{", "\"", "d", "e", "t", "a", "i", "l", "\"", ":", "\"", "\"", ",",
      "\"", "m", "e", "s", "s", "a", "g", "e", "\"", ":", "\"", "m", "1",
      "\"", "}">>

ReplyTexts == {ReplyJob, ReplyPlain, ReplyDetail, ReplyMessage,
               BodyNoEvent, BodyList, BodyNull, BodyBroken}

\* what the network gives back to requests.request: nothing, or a response
NoReply == [arrived |-> FALSE]

Replies ==
    {NoReply} \cup
    {[arrived |-> TRUE, ok |-> sc < 400, status_code |-> sc, text |-> t] :
        sc \in {200, 404, 500}, t \in ReplyTexts}

EmptyDict == <<>>

\* keyword arguments of from_journey that match no parameter
JourneyOptions == {EmptyDict, [idempotency_key |-> IdemKey]}

\* named arguments of from_journey; a name left out has its default
JourneyKw ==
    {[product_context |-> pc, screenshots |-> sh, descriptions |-> sh,
      product_url |-> pu, webhook_url |-> wu] :
        pc \in {None, <<>>, <<"c", "t", "x">>},
        sh \in {None, <<"img1">>},
        pu \in {None, HookUrl},
        wu \in {None, HookUrl}}

Idle == [op |-> "none"]

\* vloex = Vloex(api_key)
NewClient ==
    /\ ~api.client.made
    /\ api.last = Idle
    /\ \E api_key \in ApiKeys :
         LET r == Vloex(api_key, DEFAULT_BASE_URL)
         IN  api' = [client |-> r.client,
                     last   |-> [op |-> "Vloex", api_key |-> api_key,
                                 sent |-> <<>>, outcome |-> r.outcome]]
    /\ UNCHANGED <<clock, receiverVars, poller, workers>>

\* vloex.videos.create(script, ...)
Create ==
    /\ api.client.made
    /\ api.last = Idle
    /\ \E webhook_url \in {None, HookUrl}, webhook_secret \in {None, OtherSecret},
          idempotency_key \in {None, <<>>, IdemKey}, reply \in Replies :
         LET r == create(api.client, <<"h", "i">>, webhook_url, webhook_secret,
                         idempotency_key, EmptyDict, reply)
         IN  api' = [api EXCEPT !.last =
                        [op |-> "create", idempotency_key |-> idempotency_key,
                         reply |-> reply, sent |-> r.sent, outcome |-> r.outcome]]
    /\ UNCHANGED <<clock, receiverVars, poller, workers>>

\* vloex.videos.retrieve(id)
Retrieve ==
    /\ api.client.made
    /\ api.last = Idle
    /\ \E id \in JobIds, reply \in Replies :
         LET r == retrieve(api.client, id, reply)
         IN  api' = [api EXCEPT !.last =
                        [op |-> "retrieve", id |-> id, reply |-> reply,
                         sent |-> r.sent, outcome |-> r.outcome]]
    /\ UNCHANGED <<clock, receiverVars, poller, workers>>

\* vloex.videos.from_journey(...)
FromJourney ==
    /\ api.client.made
    /\ api.last = Idle
    /\ \E kw \in JourneyKw, options \in JourneyOptions, reply \in Replies :
         LET r == from_journey(api.client, kw, options, reply)
         IN  api' = [api EXCEPT !.last =
                        [op |-> "from_journey", kw |-> kw, options |-> options,
                         reply |-> reply, sent |-> r.sent, outcome |-> r.outcome]]
    /\ UNCHANGED <<clock, receiverVars, poller, workers>>

\* the caller has dealt with the result of its last call
Forget ==
    /\ api.last # Idle
    /\ api' = [api EXCEPT !.last = Idle]
    /\ UNCHANGED <<clock, receiverVars, poller, workers>>

\* ------ examples/github-release-with-webhook.py: generate_release_video_with_webhook
\* the fixed text of the script template, between its three fields
ScriptOpening ==
    <<"\n", " ", " ", " ", " ", "H", "e", "y", " ", "e", "v", "e", "r", "y",
      "o", "n", "e", "!", " ">>

ScriptAnnounce ==
    <<" ", "i", "s", " ", "h", "e", "r", "e", "!", "\n", "\n", " ", " ", " ",
      " ", "W", "e", "'", "r", "e", " ", "e", "x", "c", "i", "t", "e", "d",
      " ", "t", "o", " ", "a", "n", "n", "o", "u", "n", "c", "e", " ">>

ScriptBeforeNotes ==
    <<" ", "w", "i", "t", "h", " ", "s", "o", "m", "e", " ", "a", "m", "a",
      "z", "i", "n", "g", " ", "u", "p", "d", "a", "t", "e", "s", ".", "\n",
      "\n", " ", " ", " ", " ">>

ScriptClosing ==
    <<".", ".", ".", "\n", "\n", " ", " ", " ", " ", "C", "h", "e", "c", "k",
      " ", "o", "u", "t", " ", "t", "h", "e", " ", "f", "u", "l", "l", " ",
      "r", "e", "l", "e", "a", "s", "e", " ", "n", "o", "t", "e", "s", " ",
      "o", "n", " ", "G", "i", "t", "H", "u", "b", " ", "t", "o", " ", "l",
      "e", "a", "r", "n", " ", "m", "o", "r", "e", ".", "\n", " ", " ", " ",
      " ", "U", "p", "d", "a", "t", "e", " ", "n", "o", "w", " ", "t", "o",
      " ", "g", "e", "t", " ", "t", "h", "e", "s", "e", " ", "i", "m", "p",
      "r", "o", "v", "e", "m", "e", "n", "t", "s", "!", "\n", " ", " ", " ",
      " ">>

\* body[:500]
First500(body) == SubSeq(body, 1, IF Len(body) < 500 THEN Len(body) ELSE 500)

\* the f-string of lines 63-72
release_script(name, version, body) ==
    ScriptOpening \o name \o ScriptAnnounce \o version \o ScriptBeforeNotes
        \o First500(body) \o ScriptClosing

\* release.get(key, default): default only when the key is absent
GetOr(pairs, key, default) ==
    IF \E p \in 1..Len(pairs) : pairs[p][1] = key THEN DictGet(pairs, key)
    ELSE default

\* names that obj.name finds on a dict: the methods of the class, never a key
DictAttributes ==
    {"clear", "copy", "fromkeys", "get", "items", "keys", "pop", "popitem",
     "setdefault", "update", "values"}

ReplyRelease ==
    <<"{", "\"", "t", "a", "g", "_", "n", "a", "m", "e", "\"", ":", "\"",
      "v", "1", "\"", ",", "\"", "n", "a", "m", "e", "\"", ":", "\"", "R",
      "1", "\"", ",", "\"", "b", "o", "d", "y", "\"", ":", "\"", "n", "o",
      "t", "e", "s", "\"", "}">>

\* what api.github.com gives back to requests.get
ReleaseReplies ==
    {[arrived |-> TRUE, ok |-> TRUE,  status_code |-> 200, text |-> ReplyRelease],
     [arrived |-> TRUE, ok |-> TRUE,  status_code |-> 200, text |-> BodyNoEvent],
     [arrived |-> TRUE, ok |-> TRUE,  status_code |-> 200, text |-> BodyList],
     [arrived |-> TRUE, ok |-> TRUE,  status_code |-> 200, text |-> BodyBroken],
     [arrived |-> TRUE, ok |-> FALSE, status_code |-> 404, text |-> ReplyMessage],
     NoReply}

\* what the VLOEX API gives back to the creation request
CreateReplies ==
    {[arrived |-> TRUE, ok |-> TRUE,  status_code |-> 200, text |-> ReplyJob],
     [arrived |-> TRUE, ok |-> TRUE,  status_code |-> 200, text |-> ReplyPlain],
     [arrived |-> TRUE, ok |-> TRUE,  status_code |-> 200, text |-> BodyList],
     [arrived |-> TRUE, ok |-> FALSE, status_code |-> 500, text |-> ReplyDetail],
     NoReply}

NotCreated == [kind |-> "none"]

\* generate_release_video_with_webhook: whether videos.create was reached and
\* how it ended (created), the lines printed, and how the function ended
generate_release_video_with_webhook(api_key, webhook_url, webhook_secret, release_reply, create_reply) ==
    LET release == get_json(release_reply.text)
        version == GetOr(release.pairs, <<"t", "a", "g", "_", "n", "a", "m", "e">>, <<"U", "n", "k", "n", "o", "w", "n">>)
        name    == GetOr(release.pairs, <<"n", "a", "m", "e">>, version)
        body    == GetOr(release.pairs, <<"b", "o", "d", "y">>,
                         <<"N", "o", " ", "r", "e", "l", "e", "a", "s", "e", " ", "n", "o", "t", "e", "s", " ", "a", "v", "a", "i", "l", "a", "b", "l", "e", ".">>)
        vloex   == Vloex(api_key, DEFAULT_BASE_URL)
        made    == create(vloex.client, release_script(name, version, body),
                          webhook_url, webhook_secret, None, EmptyDict, create_reply)
        stop(outcome) == [created |-> NotCreated, printed |-> <<>>, outcome |-> outcome]
    IN  IF ~release_reply.arrived THEN stop(Raised("RequestException"))
        ELSE IF release_reply.status_code >= 400 THEN stop(Raised("HTTPError"))
        ELSE IF release.kind = "invalid" THEN stop(Raised("JSONDecodeError"))
        ELSE IF release.kind # "dict" THEN stop(Raised("AttributeError"))
        ELSE IF vloex.outcome.kind # "return" THEN stop(vloex.outcome)
        ELSE IF made.outcome.kind # "return"
        THEN [created |-> made.outcome, printed |-> <<>>, outcome |-> made.outcome]
        ELSE IF "id" \notin DictAttributes
        THEN [created |-> made.outcome, printed |-> <<>>,
              outcome |-> Raised("AttributeError")]
        ELSE [created |-> made.outcome,
              printed |-> <<"created", "webhook", "continue">>,
              outcome |-> Returned(made.outcome.value)]

\* a script calls generate_release_video_with_webhook(...)
GenerateWithWebhook ==
    /\ api.last = Idle
    /\ \E api_key \in ApiKeys, webhook_secret \in {None, OtherSecret},
          release_reply \in ReleaseReplies, create_reply \in CreateReplies :
         LET r == generate_release_video_with_webhook(api_key, HookUrl, webhook_secret,
                                                      release_reply, create_reply)
         IN  api' = [api EXCEPT !.last =
                        [op |-> "generate_release_video_with_webhook",
                         release_reply |-> release_reply,
                         created |-> r.created, printed |-> r.printed,
                         outcome |-> r.outcome]]
    /\ UNCHANGED <<clock, receiverVars, poller, workers>>

NextClient ==
    NewClient \/ Create \/ Retrieve \/ FromJourney \/ GenerateWithWebhook \/ Forget

SpecClient == Init /\ [][NextClient]_vars

\* ------------------------- examples/github-release-video.py: the job poller
max_attempts == 60

SleepSeconds == 5

StatusCompleted == <<"c", "o", "m", "p", "l", "e", "t", "e", "d">>

StatusFailed == <<"f", "a", "i", "l", "e", "d">>

\* a status reply of the API: {"id":"j1","status":"<st>"}
StatusReply(st) ==
    [arrived |-> TRUE, ok |-> TRUE, status_code |-> 200,
     text |-> <<"{", "\"", "i", "d", "\"", ":", "\"", "j", "1", "\"", ",", "\"", "s", "t", "a", "t", "u", "s", "\"", ":", "\"">> \o st \o <<"\"", "}">>]

\* the status values the service may report: the four known ones and one the
\* client has never heard of
StatusValues ==
    {<<"q", "u", "e", "u", "e", "d">>, <<"p", "r", "o", "c", "e", "s", "s", "i", "n", "g">>, StatusCompleted, StatusFailed,
     <<"p", "a", "u", "s", "e", "d">>}

\* replies to a status query: a status, a record without status, an HTTP
\* error, a body that is a JSON list, no reply at all
PollReplies ==
    {StatusReply(st) : st \in StatusValues} \cup
    {[arrived |-> TRUE, ok |-> TRUE, status_code |-> 200, text |-> BodyNoEvent],
     [arrived |-> TRUE, ok |-> FALSE, status_code |-> 500, text |-> ReplyDetail],
     [arrived |-> TRUE, ok |-> TRUE, status_code |-> 200, text |-> BodyList],
     NoReply}

\* while attempt < max_attempts
LoopContinues_Inclusive(attempt) == attempt <= max_attempts

LoopContinues(attempt) == attempt < max_attempts

\* status['status'] == 'completed' / status['status'] == 'failed'
IsTerminal(status) == status.status = StatusCompleted \/ status.status = StatusFailed

\* a local variable that has not been assigned yet
Unbound == [bound |-> FALSE]

PollerClient == Vloex(ApiKey, DEFAULT_BASE_URL).client

\* video = vloex.videos.create(script=script); attempt = 0
PollStart ==
    /\ poller.pc = "idle"
    /\ \E reply \in {[arrived |-> TRUE, ok |-> TRUE, status_code |-> 200, text |-> ReplyJob],
                     [arrived |-> TRUE, ok |-> TRUE, status_code |-> 200, text |-> BodyNoEvent],
                     [arrived |-> TRUE, ok |-> FALSE, status_code |-> 404, text |-> ReplyMessage],
                     NoReply} :
         LET r == create(PollerClient, <<"h", "i">>, None, None, None, EmptyDict, reply)
         IN  poller' =
               IF r.outcome.kind = "return"
               THEN [pc |-> "polling", video |-> r.outcome.value, attempt |-> 0,
                     queries |-> 0, waited |-> 0, reply |-> reply,
                     status |-> Unbound, result |-> Unbound, error |-> Unbound]
               ELSE [pc |-> "raised", video |-> Unbound, attempt |-> 0,
                     queries |-> 0, waited |-> 0, reply |-> reply,
                     status |-> Unbound, result |-> Unbound, error |-> r.outcome]
    /\ UNCHANGED <<clock, receiverVars, api, workers>>

\* one turn of the loop: sleep, query, count, test the two terminal statuses
PollOnce ==
    /\ poller.pc = "polling"
    /\ LoopContinues(poller.attempt)
    /\ \E reply \in PollReplies :
         LET r == retrieve(PollerClient, poller.video.id, reply)
         IN  poller' =
               IF r.outcome.kind # "return"
               THEN [poller EXCEPT !.pc = "raised",
                                   !.waited = @ + SleepSeconds,
                                   !.queries = @ + Len(r.sent),
                                   !.reply = reply,
                                   !.error = r.outcome]
               ELSE [poller EXCEPT !.pc = IF IsTerminal(r.outcome.value)
                                          THEN "returned" ELSE "polling",
                                   !.waited = @ + SleepSeconds,
                                   !.queries = @ + Len(r.sent),
                                   !.reply = reply,
                                   !.attempt = @ + 1,
                                   !.status = r.outcome.value,
                                   !.result = IF IsTerminal(r.outcome.value)
                                              THEN r.outcome.value ELSE Unbound]
    /\ UNCHANGED <<clock, receiverVars, api, workers>>

\* the loop ends without a terminal status: return status
PollTimeout ==
    /\ poller.pc = "polling"
    /\ ~LoopContinues(poller.attempt)
    /\ poller' = [poller EXCEPT !.pc = "returned", !.result = poller.status]
    /\ UNCHANGED <<clock, receiverVars, api, workers>>

NextPoll == PollStart \/ PollOnce \/ PollTimeout

\* the poller's thread keeps running: each step that can be taken is taken
SpecPoll ==
    Init /\ [][NextPoll]_vars /\ WF_vars(PollStart) /\ WF_vars(PollOnce)
         /\ WF_vars(PollTimeout)

\* ------------- verify_webhook_signature, statement by statement, in threads
\* the arguments the request-handling threads call it with: a correctly signed
\* body in bare and in scheme form, that digest with another body, and two
\* timestamps that make the call stop at line 113
WorkerArgs ==
    LET d == expected_signature(BodyNoEvent, <<"7", "0", "0">>, OtherSecret)
    IN  {[payload_json |-> BodyNoEvent, signature |-> d,
          timestamp |-> <<"7", "0", "0">>, secret |-> OtherSecret],
         [payload_json |-> BodyNoEvent,
          signature |-> SignatureHeader("scheme", d),
          timestamp |-> <<"7", "0", "0">>, secret |-> OtherSecret],
         [payload_json |-> BodyList, signature |-> d,
          timestamp |-> <<"7", "0", "0">>, secret |-> OtherSecret],
         [payload_json |-> BodyNoEvent, signature |-> d,
          timestamp |-> <<>>, secret |-> OtherSecret]}

\* an assignment to a name that is a module-level global: every thread sees it
Assign_Global(ws, w, name, value) ==
    [v \in DOMAIN ws |-> [ws[v] EXCEPT ![name] = value]]

\* an assignment to a local variable of the invocation running in thread w
Assign(ws, w, name, value) ==
    [ws EXCEPT ![w][name] = value]

\* a thread enters verify_webhook_signature(payload_json, signature, timestamp,
\* secret)
Invoke(w) ==
    /\ workers[w].pc = "idle"
    /\ \E a \in WorkerArgs :
         workers' = [workers EXCEPT ![w].pc = "freshness", ![w].args = a]
    /\ UNCHANGED <<clock, receiverVars, api, poller>>

\* line 113: if abs(time.time() - int(timestamp)) > 300: return False
Freshness(w) ==
    /\ workers[w].pc = "freshness"
    /\ workers' =
         [workers EXCEPT
            ![w].now = clock,
            ![w].result = IF ~IsIntLiteral(workers[w].args.timestamp) THEN "ValueError"
                          ELSE IF IsStale(clock, workers[w].args.timestamp) THEN "False"
                          ELSE "none",
            ![w].pc = IF ~IsIntLiteral(workers[w].args.timestamp) THEN "done"
                      ELSE IF IsStale(clock, workers[w].args.timestamp) THEN "done"
                      ELSE "message"]
    /\ UNCHANGED <<clock, receiverVars, api, poller>>

\* line 117: message = f"{timestamp}.{payload_json}"
Message(w) ==
    /\ workers[w].pc = "message"
    /\ workers' =
         [Assign(workers, w, "message",
                 SignedMessage(workers[w].args.timestamp, workers[w].args.payload_json))
            EXCEPT ![w].pc = "sign"]
    /\ UNCHANGED <<clock, receiverVars, api, poller>>

\* lines 120-124: expected_signature = hmac.new(...).hexdigest()
Sign(w) ==
    /\ workers[w].pc = "sign"
    /\ workers' =
         [Assign(workers, w, "expected_signature",
                 HmacSha256Hex(EncodeUtf8(workers[w].args.secret),
                               EncodeUtf8(workers[w].message)))
            EXCEPT ![w].pc = "extract"]
    /\ UNCHANGED <<clock, receiverVars, api, poller>>

\* line 127: provided_signature = signature.split('=')[1] if ... else signature
Extract(w) ==
    /\ workers[w].pc = "extract"
    /\ workers' =
         [Assign(workers, w, "provided_signature",
                 provided_signature(workers[w].args.signature))
            EXCEPT ![w].pc = "compare"]
    /\ UNCHANGED <<clock, receiverVars, api, poller>>

\* line 128: return hmac.compare_digest(expected_signature, provided_signature)
Compare(w) ==
    /\ workers[w].pc = "compare"
    /\ workers' =
         [workers EXCEPT
            ![w].result = compare_digest(workers[w].expected_signature,
                                         workers[w].provided_signature),
            ![w].pc = "done"]
    /\ UNCHANGED <<clock, receiverVars, api, poller>>

InvokeSome == \E w \in 1..NumWorkers : Invoke(w)

FreshnessSome == \E w \in 1..NumWorkers : Freshness(w)

MessageSome == \E w \in 1..NumWorkers : Message(w)

SignSome == \E w \in 1..NumWorkers : Sign(w)

ExtractSome == \E w \in 1..NumWorkers : Extract(w)

CompareSome == \E w \in 1..NumWorkers : Compare(w)

NextThreads ==
    InvokeSome \/ FreshnessSome \/ MessageSome \/ SignSome \/ ExtractSome
        \/ CompareSome \/ Tick

SpecThreads == Init /\ [][NextThreads]_vars

\* ================================================================ claims
\* what the claims say about a direct call, stated without the code's steps

\* |now - timestamp|, in ticks, of a call whose timestamp is an integer
CallAge == Abs(call.now - IntValue(call.timestamp) * ClockResolution)

\* the lowercase-hex HMAC-SHA256 of "{timestamp}.{body}" keyed by the secret
CallDigest ==
    HmacSha256Hex(EncodeUtf8(call.secret),
                  EncodeUtf8(call.timestamp \o <<".">> \o call.payload_json))

\* C1: a call whose timestamp is at most 300 s away from the clock and whose
\* signature header is the lowercase-hex HMAC-SHA256 of "{timestamp}.{body}"
\* keyed by the secret returns True.
C1_FreshCorrectAccepted ==
    ( /\ call.made
      /\ IsIntLiteral(call.timestamp)
      /\ CallAge <= Tolerance * ClockResolution
      /\ call.signature = CallDigest )
    => call.result = "True"

\* C1 witness: a call exactly 300 s after its timestamp, correctly signed,
\* has returned True.
C1_Witness ==
    /\ call.made
    /\ IsIntLiteral(call.timestamp)
    /\ CallAge = Tolerance * ClockResolution
    /\ call.signature = CallDigest
    /\ call.result = "True"

\* C2: a call whose timestamp is more than 300 s away from the clock, in the
\* past or in the future, returns False whatever the signature header is (the
\* correct HMAC, or one the comparison would reject or refuse); a timestamp
\* exactly 300 s away is not rejected by the freshness check, so a correctly
\* signed call at that distance returns True.
C2_StaleRejected ==
    ( call.made /\ IsIntLiteral(call.timestamp) )
    => /\ CallAge > Tolerance * ClockResolution => call.result = "False"
       /\ ( CallAge = Tolerance * ClockResolution /\ call.signature = CallDigest )
            => call.result = "True"

\* C2 witness: a correctly signed call whose timestamp lies more than 300 s
\* in the future has returned False.
C2_Witness ==
    /\ call.made
    /\ IsIntLiteral(call.timestamp)
    /\ IntValue(call.timestamp) * ClockResolution - call.now
         > Tolerance * ClockResolution
    /\ call.signature = CallDigest
    /\ call.result = "False"

\* C3: a call with a non-integer timestamp string (the empty string included)
\* or with an empty signature header returns False and raises nothing.
C3_MalformedReturnsFalse ==
    ( call.made /\ (~IsIntLiteral(call.timestamp) \/ call.signature = <<>>) )
    => call.result = "False"

\* C4: the handler parses and acts on a delivery's payload only if
\* verify_webhook_signature returned True for that delivery (stated for a
\* receiver that has a secret configured).
C4_ParsedOnlyIfVerified ==
    ( WEBHOOK_SECRET # <<>> /\ response.status # 0 /\ response.parsed )
    => response.verified = "True"

\* the value of the delivery's signature header, '' when it was not sent
RequestSignature == HeaderGet(request.headers, "X-VLOEX-Signature", <<>>)

\* C5: with a secret configured, a delivery without a signature header, or
\* with an empty one, is answered 401 and its payload is not processed.
C5_MissingSignatureRejected ==
    ( /\ WEBHOOK_SECRET # <<>>
      /\ request.present /\ response.status # 0
      /\ RequestSignature = <<>> )
    => response.status = 401 /\ ~response.parsed

\* d with its last character replaced by a non-ASCII one
NonAsciiLast(d) == SubSeq(d, 1, Len(d) - 1) \o <<"U+00E9">>

\* the values the digest of an accepted call can be changed to
ChangedDigests ==
    UNION { {d, FlipFirst(d), NonAsciiLast(d), <<>>} :
              d \in SenderDigests(call.payload_json, call.timestamp, call.secret) }

\* C6: from an accepted call, the same call with the body, the secret, or
\* the digest in the signature header changed to a different value returns
\* False.
C6_TamperedRejected ==
    ( call.made /\ call.result = "True" )
    => /\ \A body \in CallBodies \ {call.payload_json} :
            verify_webhook_signature(body, call.signature, call.timestamp,
                                     call.secret, call.now) = "False"
       /\ \A secret \in (Secrets \cup {<<>>}) \ {call.secret} :
            verify_webhook_signature(call.payload_json, call.signature,
                                     call.timestamp, secret, call.now) = "False"
       /\ \A d \in ChangedDigests \ {provided_signature(call.signature)} :
            verify_webhook_signature(call.payload_json, d, call.timestamp,
                                     call.secret, call.now) = "False"

\* everything after the first "=" of a header that has one, else the header
AfterFirstEquals(signature) ==
    IF Contains(signature, "=")
    THEN SubSeq(signature, NthOccurrence(signature, "=", 1) + 1, Len(signature))
    ELSE signature

\* C7: the digest compared with the expected one is everything after the
\* first "=" of the signature header, later "=" characters included, or the
\* whole header when it has no "=": a fresh call returns what that comparison
\* gives.
C7_DigestAfterFirstEquals ==
    ( /\ call.made
      /\ IsIntLiteral(call.timestamp)
      /\ CallAge <= Tolerance * ClockResolution )
    => call.result = compare_digest(CallDigest, AfterFirstEquals(call.signature))

\* scheme labels a sender can put before the digest
SchemeLabels == {Sha256Label, <<"v", "1">>, <<>>, <<"U+00E9">>}

\* C8: for a digest d and a scheme label s (neither holds a "="), the call
\* with the bare header d and the call with the header s=d, all else equal,
\* end the same way.
C8_BareAndSchemeAgree ==
    ( call.made /\ ~Contains(call.signature, "=") )
    => \A s \in SchemeLabels :
          verify_webhook_signature(call.payload_json,
                                   s \o <<"=">> \o call.signature,
                                   call.timestamp, call.secret, call.now)
            = call.result

\* C8 witness: a call with a bare digest has returned True.
C8_Witness ==
    /\ call.made
    /\ ~Contains(call.signature, "=")
    /\ call.signature # <<>>
    /\ call.result = "True"

\* C9: the handler answers 401 exactly when the signature check fails, 200
\* to every delivery that passed it, whatever its event tag and payload, and
\* never 500.
C9_ResponseContract ==
    response.status # 0
    => /\ response.status = 401 <=> response.verified \notin {"True", "skipped"}
       /\ response.verified = "True" => response.status = 200
       /\ response.status # 500

\* the reports written for verified deliveries of (job_id, event)
VerifiedReports(job_id, event) ==
    { k \in 1..Len(stdout) :
        /\ stdout[k].job_id = job_id
        /\ stdout[k].event = event
        /\ stdout[k].verified = "True" }

\* C10: however often a verified event is delivered, its effect is applied at
\* most once per (job_id, event).
C10_EffectAppliedOnce ==
    \A k \in 1..Len(stdout) :
        Cardinality(VerifiedReports(stdout[k].job_id, stdout[k].event)) <= 1

\* the idempotency key the caller of the last creation call passed, None for none
CallerKey ==
    IF api.last.op = "create" THEN api.last.idempotency_key
    ELSE IF "idempotency_key" \in DOMAIN api.last.options
    THEN api.last.options["idempotency_key"]
    ELSE None

\* C11: a creation call (videos.create, videos.from_journey) that was given an
\* idempotency key sends it as the header Idempotency-Key with that exact
\* value, a call given no key sends no such header, and the key is never a
\* member of the JSON body.
C11_KeySentAsHeaderOnly ==
    (api.last.op \in {"create", "from_journey"} /\ api.last.sent # <<>>) =>
        LET rq == api.last.sent[1]
        IN  /\ Truthy(CallerKey) =>
                 /\ "Idempotency-Key" \in DOMAIN rq.headers
                 /\ rq.headers["Idempotency-Key"] = CallerKey
            /\ CallerKey = None => "Idempotency-Key" \notin DOMAIN rq.headers
            /\ "idempotency_key" \notin DOMAIN rq.json

\* what the claim promises of the poller in every state
PollerSafe ==
    poller.pc # "idle" =>
        /\ poller.queries <= 60
        /\ poller.pc = "polling" =>
             (poller.attempt = 0 \/ ~IsTerminal(poller.status))
        /\ poller.pc = "returned" =>
             /\ poller.result = poller.status
             /\ IsTerminal(poller.status) \/ poller.queries = 60
        /\ (poller.pc = "raised" /\ poller.queries > 0) =>
             ~(/\ poller.reply.arrived
               /\ poller.reply.ok
               /\ get_json(poller.reply.text).kind = "dict")

\* C12: the job poller always terminates; it issues at most 60 status
\* queries, stops at the first query whose status is completed or failed and
\* returns that record, keeps polling on every other status value instead of
\* raising, and on timeout returns the last status record seen.
C12_PollerTerminates ==
    /\ []PollerSafe
    /\ <>(poller.pc \in {"returned", "raised"})

\* the poller ran out of attempts on a status it does not know and returned it
C12_Witness ==
    /\ poller.pc = "returned"
    /\ poller.queries = 60
    /\ poller.result.status = <<"p", "a", "u", "s", "e", "d">>

\* C13: verify_webhook_signature is a pure predicate: however the statements
\* of concurrent invocations interleave, each invocation ends with the result
\* the function gives for its own four arguments and its own clock reading,
\* and it leaves the module state of the receiver as it was.
C13_InterleavingIndependent ==
    /\ \A w \in 1..NumWorkers :
         workers[w].pc = "done" =>
            workers[w].result =
               verify_webhook_signature(workers[w].args.payload_json,
                                        workers[w].args.signature,
                                        workers[w].args.timestamp,
                                        workers[w].args.secret,
                                        workers[w].now)
    /\ (\E w \in 1..NumWorkers : workers[w].pc # "idle") =>
         /\ request = NoRequest
         /\ response = NoResponse
         /\ stdout = <<>>
         /\ served = 0

\* two invocations with different arguments have both run to their end, one
\* accepting and one rejecting, having read the clock at different times
C13_Witness ==
    /\ workers[1].pc = "done" /\ workers[2].pc = "done"
    /\ workers[1].result = "True" /\ workers[2].result = "False"
    /\ workers[1].args.payload_json # workers[2].args.payload_json
    /\ workers[1].now # workers[2].now

\* the last call of the client got an HTTP response
Answered ==
    /\ api.last.op \in {"create", "retrieve", "from_journey"}
    /\ api.last.sent # <<>>
    /\ api.last.reply.arrived

\* the member name of the response body, None when the body is not a JSON
\* object with that member
BodyMember(reply, name) ==
    LET body == get_json(reply.text)
    IN  IF body.kind = "dict" THEN DictGet(body.pairs, name) ELSE None

\* C15: when the HTTP response is not ok, _request raises VloexError with the
\* response's status code and the message taken from the body's detail, else
\* its message, else 'API request failed' (also for a body that is not JSON)
\* and returns no record; when the response is ok it returns a record and
\* raises nothing.
C15_ErrorContract ==
    Answered =>
        LET reply == api.last.reply
            out   == api.last.outcome
            detail  == BodyMember(reply, <<"d", "e", "t", "a", "i", "l">>)
            message == BodyMember(reply, <<"m", "e", "s", "s", "a", "g", "e">>)
        IN  IF reply.ok THEN out.kind = "return"
            ELSE /\ out.kind = "VloexError"
                 /\ out.status_code = reply.status_code
                 /\ out.message = IF Truthy(detail) THEN detail
                                  ELSE IF Truthy(message) THEN message
                                  ELSE ApiRequestFailed

\* the first of two members of the response body that is present and not empty
FirstMember(reply, name, fallback) ==
    IF Truthy(BodyMember(reply, name)) THEN BodyMember(reply, name)
    ELSE BodyMember(reply, fallback)

\* C16: for every job id, videos.retrieve(id) returns the record {id, status,
\* url, error} with url from the response's video_url (else url) and error
\* from error_message (else error), and videos.from_journey returns {id,
\* status, created_at, updated_at}; the mapping depends on the operation
\* called only, never on the characters of the id.
C16_MappingByOperation ==
    (/\ Answered
     /\ api.last.op \in {"retrieve", "from_journey"}
     /\ api.last.reply.ok
     /\ get_json(api.last.reply.text).kind = "dict") =>
        LET reply == api.last.reply
        IN  /\ api.last.outcome.kind = "return"
            /\ api.last.op = "retrieve" =>
                 api.last.outcome.value =
                    [id     |-> BodyMember(reply, <<"i", "d">>),
                     status |-> BodyMember(reply, <<"s", "t", "a", "t", "u", "s">>),
                     url    |-> FirstMember(reply, <<"v", "i", "d", "e", "o", "_", "u", "r", "l">>, <<"u", "r", "l">>),
                     error  |-> FirstMember(reply, <<"e", "r", "r", "o", "r", "_", "m", "e", "s", "s", "a", "g", "e">>,
                                            <<"e", "r", "r", "o", "r">>)]
            /\ api.last.op = "from_journey" =>
                 api.last.outcome.value =
                    [id         |-> BodyMember(reply, <<"i", "d">>),
                     status     |-> BodyMember(reply, <<"s", "t", "a", "t", "u", "s">>),
                     created_at |-> BodyMember(reply, <<"c", "r", "e", "a", "t", "e", "d", "_", "a", "t">>),
                     updated_at |-> BodyMember(reply, <<"u", "p", "d", "a", "t", "e", "d", "_", "a", "t">>)]

\* C17: argument validation precedes any network call: Vloex with an empty or
\* missing api_key raises ValueError and yields no client, and from_journey
\* with an empty or missing product_context raises ValueError before any HTTP
\* request is issued.
C17_ValidationBeforeNetwork ==
    /\ (api.last.op = "Vloex" /\ api.last.api_key \in {None, <<>>}) =>
          /\ api.last.outcome.kind = "ValueError"
          /\ ~api.client.made
          /\ api.last.sent = <<>>
    /\ (api.last.op = "from_journey"
        /\ api.last.kw.product_context \in {None, <<>>}) =>
          /\ api.last.outcome.kind = "ValueError"
          /\ api.last.sent = <<>>

\* from_journey was called with screenshots and a webhook but an empty
\* product_context, and was refused
C17_Witness ==
    /\ api.last.op = "from_journey"
    /\ api.last.kw.product_context = <<>>
    /\ api.last.kw.screenshots # None
    /\ api.last.kw.webhook_url # None
    /\ api.last.outcome.kind = "ValueError"

\* the release fetch of the last generate_release_video_with_webhook call
\* succeeded: an answer came, it was not an HTTP error, it was a JSON object
ReleaseFetched ==
    /\ api.last.op = "generate_release_video_with_webhook"
    /\ api.last.release_reply.arrived
    /\ api.last.release_reply.status_code < 400
    /\ get_json(api.last.release_reply.text).kind = "dict"

\* C18: whenever the release fetch and the videos.create call both succeed,
\* generate_release_video_with_webhook runs to completion and returns the job
\* record that videos.create returned, without raising.
C18_ReturnsCreatedRecord ==
    (ReleaseFetched /\ api.last.created.kind = "return") =>
        api.last.outcome = Returned(api.last.created.value)

====
